---- MODULE Spec2Model ----
(***************************************************************************)
(* Model of the icu_nif formatters (number.rs, list.rs, datetime.rs).      *)
(*                                                                         *)
(* One behaviour is one NIF call.  The locale engine (the icu crate) is    *)
(* the environment: it drives the PartsCollector through write_str,        *)
(* write_char and with_part in any well-nested order, and ends the write   *)
(* with Ok, with fmt::Error, or (temporal only, a TryWriteable) with its   *)
(* own write error after lossy output.                                     *)
(*                                                                         *)
(* Strings are sequences of UTF-8 bytes; offsets are byte offsets, as in   *)
(* Rust.  Option<T> is a sequence of length 0 (None) or 1 (Some).          *)
(***************************************************************************)
EXTENDS Integers, Sequences, FiniteSets, TLC

\* Bounds of the model.
MaxLen == 3      \* bytes the engine writes in one call
MaxDepth == 2    \* with_part calls open at the same time
MaxCalls == 3    \* with_part calls in one format call
MaxKeys == 3     \* entries of an options map
MantissaBits == 3    \* bits of a float's significand (f64: 53)
MaxFloatExp == 2     \* binary exponents -MaxFloatExp..MaxFloatExp of a float's last bit

VARIABLES
    op,            \* the NIF that was called
    pc,            \* "start", "writing", "done"
    output,        \* PartsCollector.output (or the plain String sink)
    parts,         \* PartsCollector.parts
    stack,         \* the with_part calls in progress: their `start` and `part`
    returned,      \* number of with_part calls that have returned Ok
    write_result,  \* how the engine's write ended: "ok", "fmt_error", "try_error"
    result,        \* the term the NIF returns
    fkind,         \* the constructor called: "number", "list", "temporal"
    locale_term,   \* the locale argument of the constructor
    options_term,  \* the options argument of the constructor
    formatter,     \* what the constructor returned
    number,        \* the decimal term_to_decimal made of the last number
    decimal,       \* that decimal after apply_config
    number_term,   \* the number argument of number_format
    datetime_term, \* the datetime argument of temporal_format
    temporal_input \* what decode_temporal made of it

\* The state of one format call, and the state of a formatter and its
\* number_format calls.
call_vars == <<op, pc, output, parts, stack, returned, write_result, result>>
formatter_vars == <<fkind, locale_term, options_term, formatter, number, decimal>>
input_vars == <<number_term, datetime_term, temporal_input>>
vars == <<call_vars, formatter_vars, input_vars>>

----------------------------------------------------------------------------
\* The operations and their kinds.

PlainOps == {"number_format", "list_format", "temporal_format"}
ToPartsOps == {"number_format_to_parts", "list_format_to_parts",
               "temporal_format_to_parts"}
Ops == PlainOps \cup ToPartsOps

\* The error atom each operation returns for a bad input or a failed write.
InputError(o) ==
    CASE o \in {"number_format", "number_format_to_parts"} -> "invalid_number"
      [] o \in {"list_format", "list_format_to_parts"} -> "invalid_items"
      [] OTHER -> "invalid_datetime"

\* The writeable::Part values the engine of each formatter hands to with_part.
\* "ERROR" is writeable::Part::ERROR, which no part_atom maps.
EngineParts(o) ==
    CASE o = "number_format_to_parts" -> {"INTEGER", "GROUP", "ERROR"}
      [] o = "list_format_to_parts" -> {"ELEMENT", "LITERAL", "ERROR"}
      [] o = "temporal_format_to_parts" -> {"SECOND", "INTEGER", "ERROR"}
      [] OTHER -> {}

\* Characters and strings the engine writes: 'a' (one byte), U+00E9 (two bytes).
Chars == {97, 233}
Strs == {<<>>, <<97>>, <<97, 233>>}

----------------------------------------------------------------------------
\* Strings.

Utf8(c) == IF c < 128 THEN <<c>> ELSE <<192 + (c \div 64), 128 + (c % 64)>>

RECURSIVE Utf8Str(_)
Utf8Str(s) == IF s = <<>> THEN <<>> ELSE Utf8(Head(s)) \o Utf8Str(Tail(s))

\* str::is_char_boundary
IsCharBoundary(s, i) ==
    \/ i = 0
    \/ i = Len(s)
    \/ i < Len(s) /\ (s[i + 1] < 128 \/ s[i + 1] >= 192)

\* str::get(a..b)
StrGet(s, a, b) ==
    IF a <= b /\ b <= Len(s) /\ IsCharBoundary(s, a) /\ IsCharBoundary(s, b)
    THEN <<SubSeq(s, a + 1, b)>>
    ELSE <<>>

----------------------------------------------------------------------------
\* PartsCollector (the same code in number.rs, list.rs and datetime.rs).

CollectedPart(start, end, part) == [start |-> start, end |-> end, part |-> part]

\* Mutant of RecordSpan: the span is pushed without the `start < end` test.
RecordSpanAlways(ps, start, end, part) == Append(ps, CollectedPart(start, end, part))

\* Mutant of RecordSpan: the span is put at the head of the list.
RecordSpanFirst(ps, start, end, part) ==
    IF start < end THEN <<CollectedPart(start, end, part)>> \o ps ELSE ps

\* with_part after f returned Ok: `if start < end { self.parts.push(..) }`
RecordSpan(ps, start, end, part) ==
    IF start < end THEN Append(ps, CollectedPart(start, end, part)) ELSE ps

----------------------------------------------------------------------------
\* The returned terms.

NoResult == [tag |-> "none", reason |-> "", text |-> <<>>, parts |-> <<>>]
OkText(t) == [tag |-> "ok", reason |-> "", text |-> t, parts |-> <<>>]
OkParts(ps) == [tag |-> "ok", reason |-> "", text |-> <<>>, parts |-> ps]
ErrorResult(r) == [tag |-> "error", reason |-> r, text |-> <<>>, parts |-> <<>>]
Panic == [tag |-> "panic", reason |-> "todo!()", text |-> <<>>, parts |-> <<>>]

\* A part of the returned list.  start and end are the offsets its value was
\* sliced at; the host sees part_type and value only.
FormatPart(atom, value, start, end) ==
    [part_type |-> atom, value |-> value, start |-> start, end |-> end]

----------------------------------------------------------------------------
\* number.rs

\* Mutant of part_atom_number: the parts::GROUP branch is missing.
part_atom_number_NoGroup(part) ==
    CASE part = "INTEGER" -> <<"integer">>
      [] part = "DECIMAL" -> <<"decimal">>
      [] part = "FRACTION" -> <<"fraction">>
      [] part = "PLUS_SIGN" -> <<"plus_sign">>
      [] part = "MINUS_SIGN" -> <<"minus_sign">>
      [] OTHER -> <<>>

\* part_atom of number.rs
part_atom_number(part) ==
    CASE part = "INTEGER" -> <<"integer">>
      [] part = "DECIMAL" -> <<"decimal">>
      [] part = "FRACTION" -> <<"fraction">>
      [] part = "GROUP" -> <<"group">>
      [] part = "PLUS_SIGN" -> <<"plus_sign">>
      [] part = "MINUS_SIGN" -> <<"minus_sign">>
      [] OTHER -> <<>>

\* The loop of number_format_to_parts over collected_parts.
RECURSIVE NumberPartsLoop(_, _, _)
NumberPartsLoop(out, collected_parts, acc) ==
    IF collected_parts = <<>> THEN acc
    ELSE LET collected == Head(collected_parts)
             atom == part_atom_number(collected.part)
             slice == StrGet(out, collected.start, collected.end)
         IN NumberPartsLoop(out, Tail(collected_parts),
                IF atom # <<>> /\ slice # <<>>
                THEN Append(acc, FormatPart(atom[1], slice[1],
                                            collected.start, collected.end))
                ELSE acc)

----------------------------------------------------------------------------
\* list.rs

part_atom_list(part) ==
    CASE part = "ELEMENT" -> <<"element">>
      [] part = "LITERAL" -> <<"literal">>
      [] OTHER -> <<>>

\* The loop of list_format_to_parts over collected_parts.
RECURSIVE ListPartsLoop(_, _, _)
ListPartsLoop(out, collected_parts, acc) ==
    IF collected_parts = <<>> THEN acc
    ELSE LET collected == Head(collected_parts)
             atom == part_atom_list(collected.part)
             slice == StrGet(out, collected.start, collected.end)
         IN ListPartsLoop(out, Tail(collected_parts),
                IF atom # <<>> /\ slice # <<>>
                THEN Append(acc, FormatPart(atom[1], slice[1],
                                            collected.start, collected.end))
                ELSE acc)

----------------------------------------------------------------------------
\* datetime.rs

part_atom_datetime(part) ==
    CASE part = "ERA" -> <<"era">>
      [] part = "YEAR" -> <<"year">>
      [] part = "RELATED_YEAR" -> <<"related_year">>
      [] part = "YEAR_NAME" -> <<"year_name">>
      [] part = "MONTH" -> <<"month">>
      [] part = "DAY" -> <<"day">>
      [] part = "WEEKDAY" -> <<"weekday">>
      [] part = "DAY_PERIOD" -> <<"day_period">>
      [] part = "HOUR" -> <<"hour">>
      [] part = "MINUTE" -> <<"minute">>
      [] part = "SECOND" -> <<"second">>
      [] part = "TIME_ZONE_NAME" -> <<"time_zone_name">>
      [] part = "INTEGER" -> <<"integer">>
      [] part = "DECIMAL" -> <<"decimal">>
      [] part = "FRACTION" -> <<"fraction">>
      [] OTHER -> <<>>

\* Mutant of LiteralGap: no literal part is made of a gap.
LiteralGapDropped(out, acc, from, to) == acc

\* A literal part for output[from..to), when that slice exists and is not empty.
LiteralGap(out, acc, from, to) ==
    LET slice == StrGet(out, from, to)
    IN IF slice # <<>> /\ slice[1] # <<>>
       THEN Append(acc, FormatPart("literal", slice[1], from, to))
       ELSE acc

\* The loop of temporal_format_to_parts over collected_parts, and the trailing
\* gap after it.
RECURSIVE TemporalPartsLoop(_, _, _, _)
TemporalPartsLoop(out, collected_parts, acc, last_index) ==
    IF collected_parts = <<>>
    THEN IF last_index < Len(out)
         THEN LiteralGap(out, acc, last_index, Len(out))
         ELSE acc
    ELSE LET collected == Head(collected_parts)
             acc1 == IF collected.start > last_index
                     THEN LiteralGap(out, acc, last_index, collected.start)
                     ELSE acc
             atom == part_atom_datetime(collected.part)
             slice == StrGet(out, collected.start, collected.end)
             acc2 == IF atom # <<>> /\ slice # <<>>
                     THEN Append(acc1, FormatPart(atom[1], slice[1],
                                                  collected.start, collected.end))
                     ELSE acc1
         IN TemporalPartsLoop(out, Tail(collected_parts), acc2, collected.end)

----------------------------------------------------------------------------
\* fixed_decimal::Decimal, as number.rs uses it.  A decimal is its sign
\* ("None", "Negative", "Positive"), its digits without leading or trailing
\* zeros, the magnitude of the first digit, and the magnitudes of the first
\* and last digit that are displayed (upper_magnitude >= 0 >= lower_magnitude).

I16Max == 32767
I16Min == -32768

Max(a, b) == IF a >= b THEN a ELSE b
Min(a, b) == IF a <= b THEN a ELSE b

RECURSIVE Pow10(_)
Pow10(k) == IF k <= 0 THEN 1 ELSE 10 * Pow10(k - 1)

RECURSIVE NatToDigits(_)
NatToDigits(n) == IF n < 10 THEN <<n>> ELSE Append(NatToDigits(n \div 10), n % 10)

RECURSIVE DigitsToNat(_)
DigitsToNat(ds) ==
    IF ds = <<>> THEN 0
    ELSE 10 * DigitsToNat(SubSeq(ds, 1, Len(ds) - 1)) + ds[Len(ds)]

RECURSIVE StripTrailingZeros(_)
StripTrailingZeros(ds) ==
    IF ds # <<>> /\ ds[Len(ds)] = 0
    THEN StripTrailingZeros(SubSeq(ds, 1, Len(ds) - 1))
    ELSE ds

FixedDecimal(sign, digits, magnitude, upper_magnitude, lower_magnitude) ==
    [sign |-> sign, digits |-> digits, magnitude |-> magnitude,
     upper_magnitude |-> upper_magnitude, lower_magnitude |-> lower_magnitude]

is_zero(d) == d.digits = <<>>

\* The magnitude of the last nonzero digit.
nonzero_magnitude_end(d) ==
    IF is_zero(d) THEN 0 ELSE d.magnitude - (Len(d.digits) - 1)

\* FixedDecimal::from(i64)
from_i64(v) ==
    LET abs == IF v < 0 THEN -v ELSE v
        sign == IF v < 0 THEN "Negative" ELSE "None"
        all == NatToDigits(abs)
    IN IF abs = 0
       THEN FixedDecimal(sign, <<>>, 0, 0, 0)
       ELSE FixedDecimal(sign, StripTrailingZeros(all), Len(all) - 1, Len(all) - 1, 0)

\* Decimal::multiply_pow10: the number becomes zero when a magnitude leaves
\* the i16 range.
multiply_pow10(d, delta) ==
    LET cleared == FixedDecimal(d.sign, <<>>, 0, 0, 0)
        shifted(u, l) ==
            FixedDecimal(d.sign, d.digits,
                         IF is_zero(d) THEN d.magnitude ELSE d.magnitude + delta, u, l)
    IN IF delta > 0
       THEN IF d.upper_magnitude + delta > I16Max
            THEN cleared
            ELSE shifted(d.upper_magnitude + delta, Min(0, d.lower_magnitude + delta))
       ELSE IF delta < 0
       THEN IF d.lower_magnitude + delta < I16Min
            THEN cleared
            ELSE shifted(Max(0, d.upper_magnitude + delta), d.lower_magnitude + delta)
       ELSE d

\* Decimal::set_sign
set_sign(d, sign) == [d EXCEPT !.sign = sign]

\* Decimal::round(position): half-even rounding at the digit of magnitude
\* `position`; the digits below it are dropped and the displayed digits end
\* at min(position, 0).
round(d, position) ==
    LET lower == Min(position, 0)
        upper == Max(d.upper_magnitude, position - 1)
        zero == FixedDecimal(d.sign, <<>>, 0, upper, lower)
        k == position - nonzero_magnitude_end(d)    \* digits to drop
        n == DigitsToNat(d.digits)
        q == n \div Pow10(k)
        r == n % Pow10(k)
        half == 5 * Pow10(k - 1)
        q2 == IF r > half \/ (r = half /\ q % 2 = 1) THEN q + 1 ELSE q
        kept == NatToDigits(q2)
    IN IF is_zero(d) THEN zero
       ELSE IF k <= 0
       THEN FixedDecimal(d.sign, d.digits, d.magnitude, upper, lower)
       ELSE IF position - 1 > d.magnitude THEN zero
       ELSE IF q2 = 0 THEN zero
       ELSE FixedDecimal(d.sign, StripTrailingZeros(kept),
                         position + Len(kept) - 1,
                         Max(upper, position + Len(kept) - 1), lower)

\* Mutant of pad_start: every call adds `position` leading zeros.
pad_start_Adding(d, position) ==
    IF position <= 0 THEN d
    ELSE [d EXCEPT !.upper_magnitude = d.upper_magnitude + position]

\* Decimal::pad_start(position): the displayed digits start at magnitude
\* position - 1, or at the first nonzero digit if that is higher.
pad_start(d, position) ==
    IF position <= 0 THEN d
    ELSE [d EXCEPT !.upper_magnitude = Max(position - 1, d.magnitude)]

\* Decimal::pad_end(position): the displayed digits end at magnitude
\* `position`, or at the last nonzero digit if that is lower.
pad_end(d, position) ==
    IF position > 0 THEN d
    ELSE [d EXCEPT !.lower_magnitude = Min(position, nonzero_magnitude_end(d))]

\* Mutant of apply_sign_display: ExceptZero does not look at the value.
apply_sign_display_ZeroSigned(d, sign_display) ==
    CASE sign_display = "Auto" ->
            IF d.sign # "Negative" THEN set_sign(d, "None") ELSE d
      [] sign_display \in {"Always", "ExceptZero"} ->
            IF d.sign # "Negative" THEN set_sign(d, "Positive") ELSE d
      [] sign_display = "Never" -> set_sign(d, "None")
      [] sign_display = "Negative" ->
            IF d.sign # "Negative" \/ is_zero(d) THEN set_sign(d, "None") ELSE d

\* Decimal::apply_sign_display
apply_sign_display(d, sign_display) ==
    CASE sign_display = "Auto" ->
            IF d.sign # "Negative" THEN set_sign(d, "None") ELSE d
      [] sign_display = "Always" ->
            IF d.sign # "Negative" THEN set_sign(d, "Positive") ELSE d
      [] sign_display = "Never" -> set_sign(d, "None")
      [] sign_display = "ExceptZero" ->
            IF is_zero(d) THEN set_sign(d, "None")
            ELSE IF d.sign # "Negative" THEN set_sign(d, "Positive") ELSE d
      [] sign_display = "Negative" ->
            IF d.sign # "Negative" \/ is_zero(d) THEN set_sign(d, "None") ELSE d

\* i16::try_from(u16)
i16_try_from(v) == IF v <= I16Max THEN <<v>> ELSE <<>>

----------------------------------------------------------------------------
\* Terms of the host.  A value is an integer, an atom, or the tuple
\* {:subsecond, i}; an options term is nil, a map (its entries in the order
\* MapIterator visits them), or something else.

IntTerm(i) == [t |-> "int", i |-> i, a |-> ""]
AtomTerm(a) == [t |-> "atom", i |-> 0, a |-> a]
SubsecondTerm(i) == [t |-> "subsecond", i |-> i, a |-> ""]
NilTerm == AtomTerm("nil")

Entry(key, value) == [key |-> key, value |-> value]
NilOptions == [t |-> "nil", entries |-> <<>>]
OtherOptions == [t |-> "other", entries |-> <<>>]
MapOptions(entries) == [t |-> "map", entries |-> entries]

\* `value as u16`
as_u16(v) == v % 65536

----------------------------------------------------------------------------
\* number.rs: FormatterConfig and decode_formatter_config

FormatterConfig(min_int, min_frac, max_frac, grouping, sign) ==
    [minimum_integer_digits |-> min_int,
     minimum_fraction_digits |-> min_frac,
     maximum_fraction_digits |-> max_frac,
     grouping_strategy |-> grouping,
     sign_display |-> sign]

\* Mutant of DefaultFormatterConfig: no maximum_fraction_digits by default.
DefaultFormatterConfigNoMax == FormatterConfig(1, 0, <<>>, "Auto", "Auto")

\* FormatterConfig::default
DefaultFormatterConfig == FormatterConfig(1, 0, <<3>>, "Auto", "Auto")

GroupingStrategyOf(a) ==
    CASE a = "auto" -> <<"Auto">>
      [] a = "always" -> <<"Always">>
      [] a = "min2" -> <<"Min2">>
      [] a = "never" -> <<"Never">>
      [] OTHER -> <<>>

SignDisplayOf(a) ==
    CASE a = "auto" -> <<"Auto">>
      [] a = "always" -> <<"Always">>
      [] a = "never" -> <<"Never">>
      [] a = "except_zero" -> <<"ExceptZero">>
      [] a = "negative" -> <<"Negative">>
      [] OTHER -> <<>>

\* Mutant of DigitsInRange: the upper limit is u16::MAX instead of i16::MAX.
DigitsInRangeU16(value, lowest) ==
    value.t = "int" /\ value.i >= lowest /\ value.i <= 65535

\* `value_term.decode::<i64>()` followed by the range test of a digit count.
DigitsInRange(value, lowest) ==
    value.t = "int" /\ value.i >= lowest /\ value.i <= I16Max

\* One iteration of the loop of decode_formatter_config: the config after the
\* entry, or none when the loop returns Err.
NumberConfigEntry(config, key, value) ==
    CASE key = "minimum_integer_digits" ->
            IF DigitsInRange(value, 1)
            THEN <<[config EXCEPT !.minimum_integer_digits = as_u16(value.i)]>>
            ELSE <<>>
      [] key = "minimum_fraction_digits" ->
            IF DigitsInRange(value, 0)
            THEN <<[config EXCEPT !.minimum_fraction_digits = as_u16(value.i)]>>
            ELSE <<>>
      [] key = "maximum_fraction_digits" ->
            IF value = NilTerm
            THEN <<[config EXCEPT !.maximum_fraction_digits = <<>>]>>
            ELSE IF DigitsInRange(value, 0)
            THEN <<[config EXCEPT !.maximum_fraction_digits = <<as_u16(value.i)>>]>>
            ELSE <<>>
      [] key = "grouping" ->
            IF value.t = "atom" /\ GroupingStrategyOf(value.a) # <<>>
            THEN <<[config EXCEPT !.grouping_strategy = GroupingStrategyOf(value.a)[1]]>>
            ELSE <<>>
      [] key = "sign_display" ->
            IF value.t = "atom" /\ SignDisplayOf(value.a) # <<>>
            THEN <<[config EXCEPT !.sign_display = SignDisplayOf(value.a)[1]]>>
            ELSE <<>>
      [] OTHER -> <<>>

RECURSIVE NumberConfigLoop(_, _)
NumberConfigLoop(entries, config) ==
    IF entries = <<>> THEN <<config>>
    ELSE LET next == NumberConfigEntry(config, Head(entries).key, Head(entries).value)
         IN IF next = <<>> THEN <<>> ELSE NumberConfigLoop(Tail(entries), next[1])

\* Mutant of MaxBelowMin: a maximum equal to the minimum is rejected too.
MaxBelowMinOrEqual(config) ==
    /\ config.maximum_fraction_digits # <<>>
    /\ config.maximum_fraction_digits[1] <= config.minimum_fraction_digits

\* Mutant of MaxBelowMin: the test after the loop is missing.
MaxBelowMinNever(config) == FALSE

\* `if let Some(max) = .. { if max < config.minimum_fraction_digits { Err } }`
MaxBelowMin(config) ==
    /\ config.maximum_fraction_digits # <<>>
    /\ config.maximum_fraction_digits[1] < config.minimum_fraction_digits

\* decode_formatter_config of number.rs
decode_number_config(term) ==
    IF term.t # "map"
    THEN IF term.t = "nil" THEN <<DefaultFormatterConfig>> ELSE <<>>
    ELSE LET config == NumberConfigLoop(term.entries, DefaultFormatterConfig)
         IN IF config = <<>> \/ MaxBelowMin(config[1]) THEN <<>> ELSE config

----------------------------------------------------------------------------
\* list.rs: FormatterConfig and decode_formatter_config

ListConfig(list_type, length) == [list_type |-> list_type, length |-> length]
DefaultListConfig == ListConfig("And", "Wide")

ListTypeOf(a) ==
    CASE a = "and" -> <<"And">>
      [] a = "or" -> <<"Or">>
      [] a = "unit" -> <<"Unit">>
      [] OTHER -> <<>>

ListLengthOf(a) ==
    CASE a = "wide" -> <<"Wide">>
      [] a = "short" -> <<"Short">>
      [] a = "narrow" -> <<"Narrow">>
      [] OTHER -> <<>>

ListConfigEntry(config, key, value) ==
    CASE key = "type" ->
            IF value.t = "atom" /\ ListTypeOf(value.a) # <<>>
            THEN <<[config EXCEPT !.list_type = ListTypeOf(value.a)[1]]>>
            ELSE <<>>
      [] key = "width" ->
            IF value.t = "atom" /\ ListLengthOf(value.a) # <<>>
            THEN <<[config EXCEPT !.length = ListLengthOf(value.a)[1]]>>
            ELSE <<>>
      [] key = "locale" -> <<config>>
      [] OTHER -> IF value = NilTerm THEN <<config>> ELSE <<>>

RECURSIVE ListConfigLoop(_, _)
ListConfigLoop(entries, config) ==
    IF entries = <<>> THEN <<config>>
    ELSE LET next == ListConfigEntry(config, Head(entries).key, Head(entries).value)
         IN IF next = <<>> THEN <<>> ELSE ListConfigLoop(Tail(entries), next[1])

\* decode_formatter_config of list.rs
decode_list_config(term) ==
    IF term.t # "map"
    THEN IF term.t = "nil" THEN <<DefaultListConfig>> ELSE <<>>
    ELSE ListConfigLoop(term.entries, DefaultListConfig)

----------------------------------------------------------------------------
\* datetime.rs: build_field_set

\* FieldSetBuilder::new: every field is None.
NewFieldSetBuilder ==
    [length |-> <<>>, date_fields |-> <<>>, time_precision |-> <<>>,
     zone_style |-> <<>>, alignment |-> <<>>, year_style |-> <<>>]

\* The atoms each NifTaggedEnum decodes.
TemporalEnum(key) ==
    CASE key = "length" -> {"long", "medium", "short"}
      [] key = "date_fields" ->
            {"d", "md", "ymd", "de", "mde", "ymde", "e", "m", "ym", "y"}
      [] key = "time_precision" -> {"hour", "minute", "second", "minute_optional"}
      [] key = "zone_style" ->
            {"specific_long", "specific_short", "localized_offset_long",
             "localized_offset_short", "generic_long", "generic_short",
             "location", "exemplar_city"}
      [] key = "alignment" -> {"auto", "column"}
      [] key = "year_style" -> {"auto", "full", "with_era"}
      [] OTHER -> {}

\* One iteration of the loop of build_field_set.  A key that is none of the
\* six is passed over.
FieldSetEntry(builder, key, value) ==
    IF key \notin DOMAIN builder THEN <<builder>>
    ELSE IF value.t = "atom" /\ value.a \in TemporalEnum(key)
    THEN <<[builder EXCEPT ![key] = <<value.a>>]>>
    ELSE IF key = "time_precision" /\ value.t = "subsecond"
            /\ value.i >= 1 /\ value.i <= 9
    THEN <<[builder EXCEPT ![key] = <<"subsecond">>]>>
    ELSE <<>>

RECURSIVE FieldSetLoop(_, _)
FieldSetLoop(entries, builder) ==
    IF entries = <<>> THEN <<builder>>
    ELSE LET next == FieldSetEntry(builder, Head(entries).key, Head(entries).value)
         IN IF next = <<>> THEN <<>> ELSE FieldSetLoop(Tail(entries), next[1])

\* build_field_set up to build_composite: MapIterator::new fails on a term
\* that is no map.
build_field_set(term) ==
    IF term.t # "map" THEN <<>> ELSE FieldSetLoop(term.entries, NewFieldSetBuilder)

\* build_composite can succeed only when the builder asks for some field.
CanBuildComposite(builder) ==
    \/ builder.date_fields # <<>>
    \/ builder.time_precision # <<>>
    \/ builder.zone_style # <<>>

----------------------------------------------------------------------------
\* datetime.rs: decode_temporal

\* A datetime term: a map, of which the values of the keys year .. microsecond,
\* each present or not, or a term of another type.  microsecond is the tuple
\* {value, digits}.
TemporalMap(year, month, day, hour, minute, second, microsecond) ==
    [t |-> "map", year |-> year, month |-> month, day |-> day, hour |-> hour,
     minute |-> minute, second |-> second, microsecond |-> microsecond]
OtherTemporal == [TemporalMap(<<>>, <<>>, <<>>, <<>>, <<>>, <<>>, <<>>) EXCEPT !.t = "other"]
MicrosecondTerm(value, digits) == [value |-> value, digits |-> digits]

\* `value as u8`
as_u8(v) == v % 256

\* Mutant of FieldRange: any month number up to 300 passes.
FieldRangeWideMonth(key) ==
    CASE key = "month" -> 1..300
      [] key = "day" -> 1..31
      [] key = "hour" -> 0..23
      [] key = "minute" -> 0..59
      [] key = "second" -> 0..59

\* The ranges the loop of decode_temporal tests the i64 values against.
FieldRange(key) ==
    CASE key = "month" -> 1..12
      [] key = "day" -> 1..31
      [] key = "hour" -> 0..23
      [] key = "minute" -> 0..59
      [] key = "second" -> 0..59

\* The loop's test of one u8 field, and the field it stores.
FieldOk(term, key) == term[key] = <<>> \/ term[key][1] \in FieldRange(key)
Field(term, key) == IF term[key] = <<>> THEN <<>> ELSE <<as_u8(term[key][1])>>

\* The loop's test of microsecond: both elements decode as u32, the value is
\* in 0..=999_999 and the digits in 0..=6.
MicrosecondOk(term) ==
    \/ term.microsecond = <<>>
    \/ /\ term.microsecond[1].value >= 0
       /\ term.microsecond[1].digits >= 0
       /\ term.microsecond[1].value <= 999999
       /\ term.microsecond[1].digits <= 6

\* Date::try_new_iso
IsLeapYear(y) == y % 4 = 0 /\ (y % 100 # 0 \/ y % 400 = 0)
DaysInMonth(y, m) ==
    CASE m = 2 -> IF IsLeapYear(y) THEN 29 ELSE 28
      [] m \in {4, 6, 9, 11} -> 30
      [] OTHER -> 31
try_new_iso(y, m, d) ==
    IF m >= 1 /\ m <= 12 /\ d >= 1 /\ d <= DaysInMonth(y, m)
    THEN <<[year |-> y, month |-> m, day |-> d]>>
    ELSE <<>>

\* Time::try_new
try_new_time(h, m, s, ns) ==
    IF h <= 23 /\ m <= 59 /\ s <= 60 /\ ns <= 999999999
    THEN <<[hour |-> h, minute |-> m, second |-> s, nanosecond |-> ns]>>
    ELSE <<>>

\* The date group after the loop: no date when the map holds none of year,
\* month and day; Err when one is missing or the date does not exist.
\* The result is <<>> for Err and <<date>> for Ok, date being <<>> or <<d>>.
DateFields(term) ==
    IF term.year = <<>> /\ term.month = <<>> /\ term.day = <<>> THEN << <<>> >>
    ELSE IF term.year = <<>> \/ term.month = <<>> \/ term.day = <<>> THEN <<>>
    ELSE LET date == try_new_iso(term.year[1], Field(term, "month")[1],
                                 Field(term, "day")[1])
         IN IF date = <<>> THEN <<>> ELSE <<date>>

\* Mutant of TimeFields: a missing microsecond counts as zero.
TimeFieldsDefaultMicrosecond(term) ==
    IF term.hour = <<>> /\ term.minute = <<>> /\ term.second = <<>>
          /\ term.microsecond = <<>>
    THEN << <<>> >>
    ELSE IF term.hour = <<>> \/ term.minute = <<>> \/ term.second = <<>> THEN <<>>
    ELSE LET us == IF term.microsecond = <<>> THEN 0 ELSE term.microsecond[1].value
             time == try_new_time(Field(term, "hour")[1], Field(term, "minute")[1],
                                  Field(term, "second")[1], us * 1000)
         IN IF time = <<>> THEN <<>> ELSE <<time>>

\* The time group after the loop, in the same way.  `us * 1_000` is a u32
\* product; us <= 999_999 here, so it is the product of the integers.
TimeFields(term) ==
    IF term.hour = <<>> /\ term.minute = <<>> /\ term.second = <<>>
          /\ term.microsecond = <<>>
    THEN << <<>> >>
    ELSE IF term.microsecond = <<>> \/ term.hour = <<>> \/ term.minute = <<>>
               \/ term.second = <<>>
    THEN <<>>
    ELSE LET time == try_new_time(Field(term, "hour")[1], Field(term, "minute")[1],
                                  Field(term, "second")[1],
                                  term.microsecond[1].value * 1000)
         IN IF time = <<>> THEN <<>> ELSE <<time>>

\* decode_temporal: Err is <<>>, Ok the date and the time that were set.
decode_temporal(term) ==
    IF term.t # "map" THEN <<>>
    ELSE IF ~(/\ FieldOk(term, "month") /\ FieldOk(term, "day") /\ FieldOk(term, "hour")
              /\ FieldOk(term, "minute") /\ FieldOk(term, "second")
              /\ MicrosecondOk(term))
    THEN <<>>
    ELSE IF DateFields(term) = <<>> \/ TimeFields(term) = <<>> THEN <<>>
    ELSE <<[date |-> DateFields(term)[1], time |-> TimeFields(term)[1]]>>

----------------------------------------------------------------------------
\* number.rs: term_to_decimal and apply_config

\* A number term: an integer, or a map.  Of a map, the values of the keys
\* sign, coef and exp, each present or not; other keys are passed over.
IntNumber(v) ==
    [t |-> "int", sign |-> <<>>, coef |-> <<IntTerm(v)>>, exp |-> <<>>, float |-> <<>>]
DecimalMap(sign, coef, exp) ==
    [t |-> "map", sign |-> sign, coef |-> coef, exp |-> exp, float |-> <<>>]
DecimalStruct(sign, coef, exp) ==
    DecimalMap(<<IntTerm(sign)>>, <<IntTerm(coef)>>, <<IntTerm(exp)>>)
NoNumberTerm == [t |-> "none", sign |-> <<>>, coef |-> <<>>, exp |-> <<>>, float |-> <<>>]
FloatNumber(f) == [NoNumberTerm EXCEPT !.t = "float", !.float = <<f>>]

\* A float: NaN, an infinity, or the finite value (-1)^neg * m * 2^e with a
\* significand m of MantissaBits bits; below 2^(MantissaBits - 1) the
\* significand is that of a subnormal (or zero) and e is the lowest exponent.
Float(class, neg, m, e) == [class |-> class, neg |-> neg, m |-> m, e |-> e]

RECURSIVE Pow2(_)
Pow2(k) == IF k <= 0 THEN 1 ELSE 2 * Pow2(k - 1)

Normals == Pow2(MantissaBits - 1)..(Pow2(MantissaBits) - 1)
Subnormals == 0..(Pow2(MantissaBits - 1) - 1)
Magnitudes ==
    {<<m, e>> : m \in Normals, e \in (-MaxFloatExp)..MaxFloatExp}
        \cup {<<m, -MaxFloatExp>> : m \in Subnormals}
FiniteFloats == {Float("finite", neg, me[1], me[2]) : neg \in BOOLEAN, me \in Magnitudes}
NonFiniteFloats == {Float("nan", FALSE, 0, 0), Float("inf", FALSE, 0, 0),
                    Float("inf", TRUE, 0, 0)}

\* f64::is_finite
is_finite(f) == f.class = "finite"

\* Magnitudes are compared as integers: a magnitude times FloatScale.  Every
\* float, every midpoint of two neighbouring floats and every decimal with
\* at most MaxFloatExp + 1 fraction digits is such an integer.
FloatScale == Pow2(MaxFloatExp + 1) * Pow10(MaxFloatExp + 1)
Scaled(m, e) == m * Pow2(e + MaxFloatExp + 1) * Pow10(MaxFloatExp + 1)
ScaledFloats == {Scaled(me[1], me[2]) : me \in Magnitudes}
MagnitudeOf(x) == CHOOSE me \in Magnitudes : Scaled(me[1], me[2]) = x
SetMax(S) == CHOOSE x \in S : \A y \in S : y <= x
SetMin(S) == CHOOSE x \in S : \A y \in S : x <= y

\* The neighbours of a float among the floats; beyond the largest float the
\* next step of the same size stands for the overflow threshold.
FloatBelow(x) == SetMax({v \in ScaledFloats : v < x})
FloatAbove(x) ==
    IF \E v \in ScaledFloats : v > x THEN SetMin({v \in ScaledFloats : v > x})
    ELSE x + (x - FloatBelow(x))

\* The decimals that read back as the float x: those between the midpoints
\* to its neighbours, the midpoints included when the significand is even.
ReadsBackAs(c, x, m) ==
    LET lo == IF x = 0 THEN 0 ELSE (FloatBelow(x) + x) \div 2
        hi == (x + FloatAbove(x)) \div 2
    IN IF m % 2 = 0 THEN lo <= c /\ c <= hi ELSE lo < c /\ c < hi

\* The multiples of 10^k next to x, scaled.
DecimalUnit(k) == Pow2(MaxFloatExp + 1) * Pow10(k + MaxFloatExp + 1)
DecimalBelow(x, k) == (x \div DecimalUnit(k)) * DecimalUnit(k)
DecimalAbove(x, k) == DecimalBelow(x, k) + DecimalUnit(k)

\* Mutant of ShortestDecimal: the float is rounded to an integer
\* (half down), as with a precision of whole units.
NearestInteger(x, m, k) ==
    IF x - DecimalBelow(x, 0) <= DecimalAbove(x, 0) - x
    THEN <<DecimalBelow(x, 0) \div DecimalUnit(0), 0>>
    ELSE <<DecimalAbove(x, 0) \div DecimalUnit(0), 0>>

\* FloatPrecision::RoundTrip: the decimal of the fewest digits that reads
\* back as x, and of those the nearest to x; <<n, k>> is n * 10^k.  The search
\* goes from multiples of 10^k to multiples of 10^(k-1); x itself is a
\* multiple of 10^(-MaxFloatExp).
RECURSIVE ShortestDecimal(_, _, _)
ShortestDecimal(x, m, k) ==
    LET below == DecimalBelow(x, k)
        above == DecimalAbove(x, k)
        below_ok == ReadsBackAs(below, x, m)
        above_ok == ReadsBackAs(above, x, m)
        below_even == (below \div DecimalUnit(k)) % 2 = 0
        nearest == IF ~above_ok THEN below
                   ELSE IF ~below_ok THEN above
                   ELSE IF x - below < above - x THEN below
                   ELSE IF x - below > above - x THEN above
                   ELSE IF below_even THEN below ELSE above
    IN IF below_ok \/ above_ok THEN <<nearest \div DecimalUnit(k), k>>
       ELSE ShortestDecimal(x, m, k - 1)

\* FixedDecimal::try_from_f64(value, FloatPrecision::RoundTrip) for a finite
\* value.
try_from_f64(f) ==
    LET sign == IF f.neg THEN "Negative" ELSE "None"
        nk == ShortestDecimal(Scaled(f.m, f.e), f.m, MaxFloatExp + 1)
    IN IF f.m = 0 THEN FixedDecimal(sign, <<>>, 0, 0, 0)
       ELSE set_sign(multiply_pow10(from_i64(nk[1]), nk[2]), sign)

\* Mutant of i16_try_from_i64: the exponent is cast, not converted.
i16_try_from_i64_Cast(v) == <<v>>

\* i16::try_from(i64)
i16_try_from_i64(v) == IF v >= I16Min /\ v <= I16Max THEN <<v>> ELSE <<>>

\* try_decode_decimal_struct: None when a key is missing, when sign or exp is
\* no integer, when exp is no i16, when coef is no integer.
try_decode_decimal_struct(term) ==
    IF \/ term.sign = <<>> \/ term.coef = <<>> \/ term.exp = <<>>
       \/ term.sign[1].t # "int" \/ term.exp[1].t # "int" \/ term.coef[1].t # "int"
    THEN <<>>
    ELSE IF i16_try_from_i64(term.exp[1].i) = <<>> THEN <<>>
    ELSE LET exp_i16 == i16_try_from_i64(term.exp[1].i)[1]
             scaled == multiply_pow10(from_i64(term.coef[1].i), exp_i16)
         IN <<IF term.sign[1].i < 0 THEN set_sign(scaled, "Negative") ELSE scaled>>

\* term_to_decimal for an integer or a decimal struct
term_to_decimal(term) ==
    CASE term.t = "int" -> <<from_i64(term.coef[1].i)>>
      [] term.t = "float" ->
            IF ~is_finite(term.float[1]) THEN <<>> ELSE <<try_from_f64(term.float[1])>>
      [] term.t = "map" -> try_decode_decimal_struct(term)
      [] OTHER -> <<>>

\* The number terms term_to_decimal is tried on.
SignTerms == {IntTerm(1), IntTerm(-1), IntTerm(0), IntTerm(2), AtomTerm("minus")}
CoefTerms ==
    {IntTerm(0), IntTerm(5), IntTerm(-5), IntTerm(15), IntTerm(500), IntTerm(12345),
     AtomTerm("NaN")}
ExpTerms ==
    {IntTerm(-32769), IntTerm(-32768), IntTerm(-2), IntTerm(0), IntTerm(2),
     IntTerm(32763), IntTerm(32767), IntTerm(32768), AtomTerm("high")}
Optional(terms) == {<<>>} \cup {<<x>> : x \in terms}

\* The steps of apply_config; each is passed over when its i16::try_from fails.
RoundStep(d, config) ==
    IF config.maximum_fraction_digits # <<>>
          /\ i16_try_from(config.maximum_fraction_digits[1]) # <<>>
    THEN round(d, -i16_try_from(config.maximum_fraction_digits[1])[1])
    ELSE d

\* Mutant of PadStartStep: the left padding is left out.
PadStartStepSkipped(d, config) == d

PadStartStep(d, config) ==
    IF config.minimum_integer_digits > 0
          /\ i16_try_from(config.minimum_integer_digits) # <<>>
    THEN pad_start(d, i16_try_from(config.minimum_integer_digits)[1])
    ELSE d

\* Mutant of PadEndStep: the fraction is cut to minimum_fraction_digits.
PadEndStepRounding(d, config) ==
    IF config.minimum_fraction_digits > 0
    THEN round(d, -config.minimum_fraction_digits)
    ELSE d

PadEndStep(d, config) ==
    IF config.minimum_fraction_digits > 0
          /\ i16_try_from(config.minimum_fraction_digits) # <<>>
    THEN pad_end(d, -i16_try_from(config.minimum_fraction_digits)[1])
    ELSE d

SignStep(d, config) == apply_sign_display(d, config.sign_display)

\* Mutant of apply_config: the padding comes before the rounding.
apply_config_PadFirst(d, config) ==
    SignStep(RoundStep(PadEndStep(PadStartStep(d, config), config), config), config)

\* apply_config
apply_config(d, config) ==
    SignStep(PadEndStep(PadStartStep(RoundStep(d, config), config), config), config)

\* A formatter resource, or the error its constructor returned.
NoFormatter == [tag |-> "none", reason |-> "", config |-> <<>>]
OkFormatter(config) == [tag |-> "ok", reason |-> "", config |-> <<config>>]
ErrorFormatter(r) == [tag |-> "error", reason |-> r, config |-> <<>>]

\* No number and no datetime has been decoded.
InputIdle ==
    /\ number_term = NoNumberTerm
    /\ datetime_term = <<>>
    /\ temporal_input = <<>>

\* No constructor has been called.
FormatterIdle ==
    /\ fkind = "none"
    /\ locale_term = "none"
    /\ options_term = NilOptions
    /\ formatter = NoFormatter
    /\ number = <<>>
    /\ decimal = <<>>

----------------------------------------------------------------------------
\* The NIF calls.

Init ==
    /\ op \in Ops
    /\ pc = "start"
    /\ output = <<>>
    /\ parts = <<>>
    /\ stack = <<>>
    /\ returned = 0
    /\ write_result = "ok"
    /\ result = NoResult
    /\ FormatterIdle
    /\ InputIdle

\* The decoding at the head of every NIF: the formatter resource, then the
\* input term (for the list formatters also `items.is_empty()`).
Begin ==
    /\ pc = "start"
    /\ \E formatter_ok \in BOOLEAN, input_ok \in BOOLEAN :
          IF ~formatter_ok
          THEN pc' = "done" /\ result' = ErrorResult("invalid_formatter")
          ELSE IF ~input_ok
          THEN pc' = "done" /\ result' = ErrorResult(InputError(op))
          ELSE pc' = "writing" /\ result' = result
    /\ UNCHANGED <<op, output, parts, stack, returned, write_result>>
    /\ UNCHANGED formatter_vars
    /\ UNCHANGED input_vars

\* fmt::Write::write_str
WriteStr(s) ==
    /\ pc = "writing"
    /\ Len(output) + Len(Utf8Str(s)) <= MaxLen
    /\ output' = output \o Utf8Str(s)
    /\ UNCHANGED <<op, pc, parts, stack, returned, write_result, result>>
    /\ UNCHANGED formatter_vars
    /\ UNCHANGED input_vars

\* fmt::Write::write_char
WriteChar(c) ==
    /\ pc = "writing"
    /\ Len(output) + Len(Utf8(c)) <= MaxLen
    /\ output' = output \o Utf8(c)
    /\ UNCHANGED <<op, pc, parts, stack, returned, write_result, result>>
    /\ UNCHANGED formatter_vars
    /\ UNCHANGED input_vars

\* PartsWrite::with_part, up to the call of f: `let start = self.output.len()`
WithPartEnter(part) ==
    /\ pc = "writing"
    /\ op \in ToPartsOps
    /\ Len(stack) < MaxDepth
    /\ returned + Len(stack) < MaxCalls
    /\ stack' = Append(stack, [start |-> Len(output), part |-> part])
    /\ UNCHANGED <<op, pc, output, parts, returned, write_result, result>>
    /\ UNCHANGED formatter_vars
    /\ UNCHANGED input_vars

\* PartsWrite::with_part, after f returned Ok
WithPartReturn ==
    /\ pc = "writing"
    /\ stack # <<>>
    /\ LET top == stack[Len(stack)]
       IN parts' = RecordSpan(parts, top.start, Len(output), top.part)
    /\ stack' = SubSeq(stack, 1, Len(stack) - 1)
    /\ returned' = returned + 1
    /\ UNCHANGED <<op, pc, output, write_result, result>>
    /\ UNCHANGED formatter_vars
    /\ UNCHANGED input_vars

\* The engine's write returns fmt::Error: every with_part in progress returns
\* it through `f(self)?` without recording a span, and the NIF returns the
\* error of its kind.
WriteFmtError ==
    /\ pc = "writing"
    /\ op \in ToPartsOps
    /\ stack' = <<>>
    /\ write_result' = "fmt_error"
    /\ pc' = "done"
    /\ result' = ErrorResult(InputError(op))
    /\ UNCHANGED <<op, output, parts, returned>>
    /\ UNCHANGED formatter_vars
    /\ UNCHANGED input_vars

\* The temporal engine (a TryWriteable) meets its own write error, for
\* instance a field the input lacks: it goes on writing lossy output and
\* reports the error when the write is over.
TryWriteError ==
    /\ pc = "writing"
    /\ op \in {"temporal_format", "temporal_format_to_parts"}
    /\ write_result = "ok"
    /\ write_result' = "try_error"
    /\ UNCHANGED <<op, pc, output, parts, stack, returned, result>>
    /\ UNCHANGED formatter_vars
    /\ UNCHANGED input_vars

\* The engine's write is over; the rest of the NIF.
number_format == OkText(output)
list_format == OkText(output)
temporal_format == IF write_result = "try_error" THEN Panic ELSE OkText(output)
number_format_to_parts == OkParts(NumberPartsLoop(output, parts, <<>>))
list_format_to_parts == OkParts(ListPartsLoop(output, parts, <<>>))
temporal_format_to_parts == OkParts(TemporalPartsLoop(output, parts, <<>>, 0))

Finish ==
    /\ pc = "writing"
    /\ stack = <<>>
    /\ pc' = "done"
    /\ result' = CASE op = "number_format" -> number_format
                   [] op = "list_format" -> list_format
                   [] op = "temporal_format" -> temporal_format
                   [] op = "number_format_to_parts" -> number_format_to_parts
                   [] op = "list_format_to_parts" -> list_format_to_parts
                   [] op = "temporal_format_to_parts" -> temporal_format_to_parts
    /\ UNCHANGED <<op, output, parts, stack, returned, write_result>>
    /\ UNCHANGED formatter_vars
    /\ UNCHANGED input_vars

Next ==
    \/ Begin
    \/ \E s \in Strs : WriteStr(s)
    \/ \E c \in Chars : WriteChar(c)
    \/ \E part \in EngineParts(op) : WithPartEnter(part)
    \/ WithPartReturn
    \/ WriteFmtError
    \/ TryWriteError
    \/ Finish

Spec == Init /\ [][Next]_vars

----------------------------------------------------------------------------
\* The constructors and the number pipeline.

\* The locale argument: a locale resource, or any other term.
LocaleTerms == {"resource", "other"}

\* The entries tried for a map: values[k] are the values tried for key k.
MapEntries(values) == UNION {{Entry(k, v) : v \in values[k]} : k \in DOMAIN values}

\* A map holds a key once.
DistinctKeys(entries) ==
    \A i, j \in DOMAIN entries : i # j => entries[i].key # entries[j].key

\* The options argument: nil, a term that is no map, or a map of the entries es
\* in the order MapIterator visits them.
OptionsTerm(shape, es) ==
    CASE shape = "nil" -> NilOptions
      [] shape = "other" -> OtherOptions
      [] OTHER -> MapOptions(es)

OptionsShapes(n) == IF n = 0 THEN {"nil", "other", "map"} ELSE {"map"}

NumberOptionValues ==
    [minimum_integer_digits |-> {IntTerm(0), IntTerm(2), IntTerm(32767), IntTerm(32768)},
     minimum_fraction_digits |->
        {IntTerm(-1), IntTerm(0), IntTerm(1), IntTerm(2), IntTerm(3), IntTerm(4),
         IntTerm(32767), IntTerm(32768)},
     maximum_fraction_digits |->
        {NilTerm, IntTerm(-1), IntTerm(0), IntTerm(1), IntTerm(32767), IntTerm(32768)},
     grouping |-> {AtomTerm("never"), AtomTerm("bogus")},
     sign_display |->
        {AtomTerm("auto"), AtomTerm("always"), AtomTerm("never"),
         AtomTerm("except_zero"), AtomTerm("negative"), AtomTerm("bogus")},
     notation |-> {NilTerm, AtomTerm("standard")}]

ListOptionValues ==
    [type |-> {AtomTerm("or"), AtomTerm("unit"), AtomTerm("bogus")},
     width |-> {AtomTerm("short"), AtomTerm("bogus")},
     locale |-> {AtomTerm("en")},
     notation |-> {NilTerm, AtomTerm("standard")}]

TemporalOptionValues ==
    [length |-> {AtomTerm("long"), AtomTerm("bogus")},
     date_fields |-> {AtomTerm("ymd"), AtomTerm("bogus")},
     time_precision |-> {AtomTerm("minute"), SubsecondTerm(3), SubsecondTerm(10)},
     notation |-> {NilTerm, AtomTerm("standard")}]

\* The numbers number_format is called with.
NumberTerms ==
    {IntNumber(0), IntNumber(-5), IntNumber(5), IntNumber(12345),
     DecimalStruct(1, 15, -1), DecimalStruct(1, 25, -1), DecimalStruct(-1, 0, 0),
     DecimalStruct(-1, 1, -4), DecimalStruct(1, 9995, -4), DecimalStruct(-1, 500, -2),
     DecimalStruct(1, 1, 40000)}

\* All three constructors: the locale is decoded, then the options, then the
\* engine builds the formatter for the locale, which can fail.
ConstructorResult(locale, config, engine_ok) ==
    IF locale # "resource" THEN ErrorFormatter("invalid_locale")
    ELSE IF config = <<>> THEN ErrorFormatter("invalid_options")
    ELSE IF ~engine_ok THEN ErrorFormatter("invalid_locale")
    ELSE OkFormatter(config[1])

number_formatter_new ==
    /\ formatter = NoFormatter
    /\ \E locale \in LocaleTerms, engine_ok \in BOOLEAN, n \in 0..MaxKeys :
        \E shape \in OptionsShapes(n), es \in [1..n -> MapEntries(NumberOptionValues)] :
            /\ DistinctKeys(es)
            /\ locale_term' = locale
            /\ options_term' = OptionsTerm(shape, es)
            /\ formatter' = ConstructorResult(locale, decode_number_config(options_term'), engine_ok)
    /\ fkind' = "number"
    /\ UNCHANGED <<number, decimal>>
    /\ UNCHANGED call_vars
    /\ UNCHANGED input_vars

list_formatter_new ==
    /\ formatter = NoFormatter
    /\ \E locale \in LocaleTerms, engine_ok \in BOOLEAN, n \in 0..MaxKeys :
        \E shape \in OptionsShapes(n), es \in [1..n -> MapEntries(ListOptionValues)] :
            /\ DistinctKeys(es)
            /\ locale_term' = locale
            /\ options_term' = OptionsTerm(shape, es)
            /\ formatter' = ConstructorResult(locale, decode_list_config(options_term'), engine_ok)
    /\ fkind' = "list"
    /\ UNCHANGED <<number, decimal>>
    /\ UNCHANGED call_vars
    /\ UNCHANGED input_vars

\* build_field_set ends with build_composite, which fails on a builder that
\* asks for no field and can fail on others.
temporal_formatter_new ==
    /\ formatter = NoFormatter
    /\ \E locale \in LocaleTerms, engine_ok \in BOOLEAN, composite_ok \in BOOLEAN,
          n \in 0..MaxKeys :
        \E shape \in OptionsShapes(n), es \in [1..n -> MapEntries(TemporalOptionValues)] :
            LET builder == build_field_set(OptionsTerm(shape, es))
                field_set == IF builder # <<>> /\ CanBuildComposite(builder[1])
                                   /\ composite_ok
                             THEN builder ELSE <<>>
            IN /\ DistinctKeys(es)
               /\ locale_term' = locale
               /\ options_term' = OptionsTerm(shape, es)
               /\ formatter' = ConstructorResult(locale, field_set, engine_ok)
    /\ fkind' = "temporal"
    /\ UNCHANGED <<number, decimal>>
    /\ UNCHANGED call_vars
    /\ UNCHANGED input_vars

\* number_format and number_format_to_parts up to the call of the engine:
\* the number is decoded and the configuration of the formatter applied.
NumberFormatDecimal ==
    /\ fkind = "number"
    /\ formatter.tag = "ok"
    /\ pc = "idle"
    /\ \E o \in {"number_format", "number_format_to_parts"}, term \in NumberTerms :
        /\ op' = o
        /\ number_term' = term
        /\ number' = term_to_decimal(term)
        /\ decimal' = IF number' = <<>> THEN <<>>
                      ELSE <<apply_config(number'[1], formatter.config[1])>>
        /\ result' = IF number' = <<>> THEN ErrorResult(InputError(o)) ELSE NoResult
    /\ pc' = IF number' = <<>> THEN "done" ELSE "start"
    /\ UNCHANGED <<output, parts, stack, returned, write_result>>
    /\ UNCHANGED <<fkind, locale_term, options_term, formatter>>
    /\ UNCHANGED <<datetime_term, temporal_input>>

InitFormatter ==
    /\ op = "none"
    /\ pc = "idle"
    /\ output = <<>>
    /\ parts = <<>>
    /\ stack = <<>>
    /\ returned = 0
    /\ write_result = "ok"
    /\ result = NoResult
    /\ FormatterIdle
    /\ InputIdle

NextFormatter ==
    \/ number_formatter_new
    \/ list_formatter_new
    \/ temporal_formatter_new
    \/ NumberFormatDecimal

SpecFormatter == InitFormatter /\ [][NextFormatter]_vars

----------------------------------------------------------------------------
\* The decoding of a number on its own.

\* number_format and number_format_to_parts up to term_to_decimal: an integer,
\* a map with any of the keys sign, coef and exp, or a term of another type.
TermToDecimal ==
    /\ pc = "idle"
    /\ \E o \in {"number_format", "number_format_to_parts"} :
        /\ op' = o
        /\ \/ \E v \in {-5, 0, 5, 12345} : number_term' = IntNumber(v)
           \/ \E sign \in Optional(SignTerms), coef \in Optional(CoefTerms),
                 exp \in Optional(ExpTerms) :
                 number_term' = DecimalMap(sign, coef, exp)
           \/ \E f \in FiniteFloats \cup NonFiniteFloats : number_term' = FloatNumber(f)
           \/ number_term' = [NoNumberTerm EXCEPT !.t = "other"]
        /\ number' = term_to_decimal(number_term')
        /\ result' = IF number' = <<>> THEN ErrorResult(InputError(o)) ELSE NoResult
    /\ pc' = IF number' = <<>> THEN "done" ELSE "start"
    /\ UNCHANGED <<output, parts, stack, returned, write_result>>
    /\ UNCHANGED <<fkind, locale_term, options_term, formatter, decimal>>
    /\ UNCHANGED <<datetime_term, temporal_input>>

NextDecimal == TermToDecimal

SpecDecimal == InitFormatter /\ [][NextDecimal]_vars

----------------------------------------------------------------------------
\* The decoding of a datetime on its own.

\* The values tried for the keys of the datetime map.
YearValues == {2023, 2024}
MonthValues == {0, 2, 12, 13, 257}
DayValues == {0, 1, 29, 30, 32}
HourValues == {-1, 23, 24}
MinuteValues == {0, 60}
SecondValues == {59, 60}
MicrosecondValues ==
    {MicrosecondTerm(0, 0), MicrosecondTerm(999999, 6), MicrosecondTerm(1000000, 6),
     MicrosecondTerm(5, 7), MicrosecondTerm(-1, 3)}

\* temporal_format and temporal_format_to_parts up to decode_temporal.
DecodeTemporal ==
    /\ pc = "idle"
    /\ \E o \in {"temporal_format", "temporal_format_to_parts"} :
        /\ op' = o
        /\ \/ \E year \in Optional(YearValues), month \in Optional(MonthValues),
                 day \in Optional(DayValues), hour \in Optional(HourValues),
                 minute \in Optional(MinuteValues), second \in Optional(SecondValues),
                 microsecond \in Optional(MicrosecondValues) :
                 datetime_term' =
                     <<TemporalMap(year, month, day, hour, minute, second, microsecond)>>
           \/ datetime_term' = <<OtherTemporal>>
        /\ temporal_input' = decode_temporal(datetime_term'[1])
        /\ result' = IF temporal_input' = <<>> THEN ErrorResult(InputError(o))
                     ELSE NoResult
    /\ pc' = IF temporal_input' = <<>> THEN "done" ELSE "start"
    /\ UNCHANGED <<output, parts, stack, returned, write_result>>
    /\ UNCHANGED formatter_vars
    /\ UNCHANGED number_term

NextTemporal == DecodeTemporal

SpecTemporal == InitFormatter /\ [][NextTemporal]_vars

----------------------------------------------------------------------------
\* Properties.

\* The call `o` has returned {:ok, _}.
ReturnedOk(o) == pc = "done" /\ op = o /\ result.tag = "ok"

\* The texts of a list of parts, concatenated in order.
RECURSIVE ConcatValues(_)
ConcatValues(ps) ==
    IF ps = <<>> THEN <<>> ELSE Head(ps).value \o ConcatValues(Tail(ps))

\* The byte lengths of the texts of a list of parts, summed.
RECURSIVE SumLengths(_)
SumLengths(ps) ==
    IF ps = <<>> THEN 0 ELSE Len(Head(ps).value) + SumLengths(Tail(ps))

\* Spans a and b share a byte.
Overlap(a, b) == a.start < b.end /\ b.start < a.end

\* Byte b of the output (1-based) lies in the range a part was sliced at.
Covers(p, b) == p.start < b /\ b <= p.end

\* C1 (stated as claimed; the code violates it): the texts of the parts that
\* temporal_format_to_parts returns, concatenated in order, are the collected
\* output, whatever well-nested writes the engine made.
C1_GapCompleteness ==
    ReturnedOk("temporal_format_to_parts") => ConcatValues(result.parts) = output

\* C2 (stated as claimed; the code violates it): the parts that
\* number_format_to_parts and list_format_to_parts return have a combined
\* byte length of at most the length of the output, and the text of each is
\* the output substring at its span.
C2_GapOmission ==
    (ReturnedOk("number_format_to_parts") \/ ReturnedOk("list_format_to_parts")) =>
        /\ SumLengths(result.parts) <= Len(output)
        /\ \A i \in DOMAIN result.parts :
              result.parts[i].value =
                  SubSeq(output, result.parts[i].start + 1, result.parts[i].end)

\* C3 (stated as claimed; the code violates it): only the outermost scope
\* leaves a span, so no two spans of the list handed to the part extractor
\* share a byte.
C3_OnlyOutermostSpans ==
    (pc = "done" /\ op \in ToPartsOps /\ result.tag = "ok") =>
        \A i, j \in DOMAIN parts : i # j => ~Overlap(parts[i], parts[j])

\* C4 (stated as claimed; the code violates it): the returned parts are in
\* left-to-right order: each part starts at or after the start and the end
\* of the part before it.
C4_DocumentOrder ==
    (pc = "done" /\ op \in ToPartsOps /\ result.tag = "ok") =>
        \A i \in DOMAIN result.parts :
            i > 1 => /\ result.parts[i].start >= result.parts[i - 1].start
                     /\ result.parts[i].start >= result.parts[i - 1].end

\* A with_part call whose inner write appended no byte returns Ok.
EmptyScopeReturns ==
    /\ stack # <<>>
    /\ stack[Len(stack)].start = Len(output)
    /\ returned' = returned + 1

\* C5: every recorded span has 0 <= start < end <= length of the output, and
\* a with_part call whose inner write appended zero bytes records no span.
C5_EmptySpanSuppression ==
    /\ [](\A i \in DOMAIN parts :
              /\ 0 <= parts[i].start
              /\ parts[i].start < parts[i].end
              /\ parts[i].end <= Len(output))
    /\ [][EmptyScopeReturns => parts' = parts]_vars

\* C5 witness: two with_part calls have returned, one around an empty write
\* and one around a write of some bytes; only the second left a span.
C5_Witness ==
    /\ op \in ToPartsOps
    /\ returned = 2
    /\ Len(parts) = 1
    /\ stack = <<>>
    /\ parts[1].end - parts[1].start = Len(output)

\* C6 (stated as claimed; the code violates it): in what
\* temporal_format_to_parts returns, every byte of the output that no
\* surfaced part covers lies in a part tagged literal.
C6_UncoveredBytesAreLiteral ==
    ReturnedOk("temporal_format_to_parts") =>
        \A b \in 1..Len(output) :
            \/ \E i \in DOMAIN result.parts :
                  result.parts[i].part_type # "literal" /\ Covers(result.parts[i], b)
            \/ \E i \in DOMAIN result.parts :
                  /\ result.parts[i].part_type = "literal"
                  /\ Covers(result.parts[i], b)
                  /\ result.parts[i].value =
                        SubSeq(output, result.parts[i].start + 1, result.parts[i].end)

\* C7 (stated as claimed; the code violates it): in what
\* temporal_format_to_parts returns no literal part has an empty text and no
\* two consecutive parts are both literal.
C7_OneLiteralPerGap ==
    ReturnedOk("temporal_format_to_parts") =>
        /\ \A i \in DOMAIN result.parts :
              result.parts[i].part_type = "literal" => result.parts[i].value # <<>>
        /\ \A i \in DOMAIN result.parts :
              i > 1 => ~(/\ result.parts[i].part_type = "literal"
                         /\ result.parts[i - 1].part_type = "literal")

\* The enumerated categories of the number and list formatters, and the atom
\* of each.
NumberCategories ==
    [INTEGER |-> "integer", DECIMAL |-> "decimal", FRACTION |-> "fraction",
     GROUP |-> "group", PLUS_SIGN |-> "plus_sign", MINUS_SIGN |-> "minus_sign"]
ListCategories == [ELEMENT |-> "element", LITERAL |-> "literal"]
CategoriesOf(o) ==
    IF o = "number_format_to_parts" THEN NumberCategories ELSE ListCategories

\* The recorded spans whose tag is in the category set `cat`, by index.
Enumerated(cat) == {i \in DOMAIN parts : parts[i].part \in DOMAIN cat}

\* rs is one part for each recorded span with a tag of `cat`, in recorded order.
OnePartPerEnumeratedSpan(rs, cat) ==
    /\ Len(rs) = Cardinality(Enumerated(cat))
    /\ \A i \in Enumerated(cat) :
          rs[Cardinality({j \in Enumerated(cat) : j <= i})] =
              FormatPart(cat[parts[i].part],
                         SubSeq(output, parts[i].start + 1, parts[i].end),
                         parts[i].start, parts[i].end)

\* C8: when the write of number_format_to_parts or list_format_to_parts has
\* ended without error, the call returns ok with exactly one part for every
\* recorded span whose tag is in the formatter's category set, in recorded
\* order, and nothing for any other span.
C8_OnePartPerEnumeratedSpan ==
    [][(/\ op \in {"number_format_to_parts", "list_format_to_parts"}
        /\ pc = "writing"
        /\ pc' = "done"
        /\ write_result' = "ok")
       => (/\ result'.tag = "ok"
           /\ OnePartPerEnumeratedSpan(result'.parts, CategoriesOf(op)))]_vars

\* C8 witness: number_format_to_parts returned ok after the engine recorded a
\* GROUP span and a span with an unmapped tag; one part came back.
C8_Witness ==
    /\ ReturnedOk("number_format_to_parts")
    /\ Len(parts) = 2
    /\ \E i, j \in DOMAIN parts : parts[i].part = "GROUP" /\ parts[j].part = "ERROR"
    /\ Len(result.parts) = 1

\* C9 (stated as claimed; the code violates it): a to_parts call whose
\* underlying write failed returns the error of its kind, never ok with parts.
C9_FailedWriteIsError ==
    (pc = "done" /\ op \in ToPartsOps /\ write_result # "ok") =>
        (result.tag = "error" /\ result.reason = InputError(op))

\* C10 (stated as claimed; the code violates it): every call ends with an ok
\* result or one error kind, never a panic.
C10_Total ==
    pc = "done" => result.tag \in {"ok", "error"}

----------------------------------------------------------------------------
\* Properties of the constructors and of apply_config (SpecFormatter).

\* The number formatter was built and holds this configuration.
NumberFormatterOk == fkind = "number" /\ formatter.tag = "ok"
Config == formatter.config[1]

\* The value the options map holds for a key, if any; a map holds a key once,
\* so this does not depend on the order of the entries.
OptionValue(options, key) ==
    LET at == {i \in DOMAIN options.entries : options.entries[i].key = key}
    IN IF at = {} THEN <<>> ELSE <<options.entries[CHOOSE i \in at : TRUE].value>>

\* The digit count a key asks for: the default when the key is absent.
RequestedDigits(options, key, default) ==
    IF OptionValue(options, key) = <<>> THEN <<default>>
    ELSE IF OptionValue(options, key)[1].t = "int" THEN <<OptionValue(options, key)[1].i>>
    ELSE <<>>

\* The options ask for digit counts outside the invariant.
ViolatesDigitInvariant(options) ==
    LET min_int == RequestedDigits(options, "minimum_integer_digits", 1)[1]
        min_frac == RequestedDigits(options, "minimum_fraction_digits", 0)[1]
        max_frac == RequestedDigits(options, "maximum_fraction_digits", 3)
    IN \/ min_int < 1
       \/ min_int > 32767
       \/ min_frac > 32767
       \/ max_frac # <<>> /\ (max_frac[1] > 32767 \/ max_frac[1] < min_frac)

\* C11: every number configuration a constructor accepted has
\* maximum_fraction_digits (if present) >= minimum_fraction_digits,
\* minimum_integer_digits >= 1 and all three digit counts <= 32767; an options
\* map that asks for digit counts violating any of these is rejected with
\* invalid_options, whatever the order its keys are visited in.
C11_AcceptedConfigIsValid ==
    /\ NumberFormatterOk =>
          /\ Config.minimum_integer_digits >= 1
          /\ Config.minimum_integer_digits <= 32767
          /\ Config.minimum_fraction_digits <= 32767
          /\ Config.maximum_fraction_digits # <<>> =>
                /\ Config.maximum_fraction_digits[1] <= 32767
                /\ Config.maximum_fraction_digits[1] >= Config.minimum_fraction_digits
    /\ (/\ fkind = "number"
        /\ locale_term = "resource"
        /\ options_term.t = "map"
        /\ ViolatesDigitInvariant(options_term))
          => formatter = ErrorFormatter("invalid_options")

\* maximum_fraction_digits = 1 is visited first, when the minimum is still 0,
\* and minimum_fraction_digits = 2 after it: the map is rejected.
C11_Witness ==
    /\ fkind = "number"
    /\ locale_term = "resource"
    /\ options_term = MapOptions(<<Entry("maximum_fraction_digits", IntTerm(1)),
                                   Entry("minimum_fraction_digits", IntTerm(2))>>)
    /\ formatter = ErrorFormatter("invalid_options")

\* The options omit the key: they are nil, or a map without it.
Omits(options, key) == OptionValue(options, key) = <<>>

\* C12: when the options are nil or a map that omits a key, the number
\* configuration holds the default for that key: minimum_integer_digits 1,
\* minimum_fraction_digits 0, maximum_fraction_digits 3, grouping auto and
\* sign display auto.
C12_Defaults ==
    NumberFormatterOk =>
        /\ Omits(options_term, "minimum_integer_digits") => Config.minimum_integer_digits = 1
        /\ Omits(options_term, "minimum_fraction_digits") => Config.minimum_fraction_digits = 0
        /\ Omits(options_term, "maximum_fraction_digits") => Config.maximum_fraction_digits = <<3>>
        /\ Omits(options_term, "grouping") => Config.grouping_strategy = "Auto"
        /\ Omits(options_term, "sign_display") => Config.sign_display = "Auto"

\* A map that sets two keys and omits the other three.
C12_Witness ==
    /\ NumberFormatterOk
    /\ options_term = MapOptions(<<Entry("sign_display", AtomTerm("always")),
                                   Entry("minimum_integer_digits", IntTerm(2))>>)
    /\ Config = FormatterConfig(2, 0, <<3>>, "Auto", "Always")

\* The options map holds a key no formatter kind knows, with a value that is
\* not nil.
HasUnknownKey(options) ==
    /\ options.t = "map"
    /\ \E i \in DOMAIN options.entries :
          /\ options.entries[i].key = "notation"
          /\ options.entries[i].value # NilTerm

\* C13: in every formatter kind, a constructor called with an options map
\* that holds an unrecognized key with a non-nil value returns
\* invalid_options.
C13_UnknownKeyRejected ==
    (/\ fkind \in {"number", "list", "temporal"}
     /\ locale_term = "resource"
     /\ HasUnknownKey(options_term))
        => formatter = ErrorFormatter("invalid_options")

\* number_format decoded the number and applied the configuration.
NumberFormatted == NumberFormatterOk /\ decimal # <<>>

\* The crafted pair: 1.5 under minimum_fraction_digits = 1 and
\* maximum_fraction_digits = 3.
CraftedPair ==
    /\ number = term_to_decimal(DecimalStruct(1, 15, -1))
    /\ Config = FormatterConfig(1, 1, <<3>>, "Auto", "Auto")

\* C14: apply_config rounds to maximum_fraction_digits, then pads to
\* minimum_integer_digits on the left, then pads to minimum_fraction_digits
\* on the right, then applies the sign display; and for the crafted pair,
\* padding before rounding gives another digit layout.
C14_FixedOrder ==
    NumberFormatted =>
        /\ decimal[1] =
              SignStep(PadEndStep(PadStartStep(RoundStep(number[1], Config),
                                               Config), Config), Config)
        /\ CraftedPair => decimal[1] # apply_config_PadFirst(number[1], Config)

\* 1.5 is rendered "1.5"; padding first would give "1.500".
C14_Witness ==
    /\ NumberFormatted
    /\ CraftedPair
    /\ decimal[1].lower_magnitude = -1
    /\ apply_config_PadFirst(number[1], Config).lower_magnitude = -3

\* The digits a decimal shows before and after the decimal point.
IntegerDigits(d) == d.upper_magnitude + 1
FractionDigits(d) == -d.lower_magnitude

\* C15: after apply_config the decimal has at least minimum_integer_digits
\* integer digits, at least minimum_fraction_digits fraction digits and, when
\* maximum_fraction_digits = Some(m), at most m fraction digits.
C15_DigitCounts ==
    NumberFormatted =>
        /\ IntegerDigits(decimal[1]) >= Config.minimum_integer_digits
        /\ FractionDigits(decimal[1]) >= Config.minimum_fraction_digits
        /\ Config.maximum_fraction_digits # <<>> =>
              FractionDigits(decimal[1]) <= Config.maximum_fraction_digits[1]

\* 0.9995 with two integer digits and exactly one fraction digit: "01.0".
C15_Witness ==
    /\ NumberFormatted
    /\ number = term_to_decimal(DecimalStruct(1, 9995, -4))
    /\ Config = FormatterConfig(2, 1, <<1>>, "Auto", "Auto")
    /\ decimal[1].digits = <<1>>
    /\ IntegerDigits(decimal[1]) = 2
    /\ FractionDigits(decimal[1]) = 1

\* C16: apply_config is idempotent: applied again with the same
\* configuration to its own result, it leaves the digits, the leading and
\* trailing zeros and the sign as they are.
C16_Idempotent ==
    NumberFormatted => apply_config(decimal[1], Config) = decimal[1]

\* For the crafted pair the second application is not a no-op step by step:
\* its rounding pads "1.5" to "1.500" again and its right padding takes the
\* zeros back.
C16_Witness ==
    /\ NumberFormatted
    /\ CraftedPair
    /\ RoundStep(decimal[1], Config) # decimal[1]
    /\ apply_config(decimal[1], Config) = decimal[1]

\* The decimal between the steps of apply_config.
Rounded == RoundStep(number[1], Config)
Padded == PadEndStep(PadStartStep(Rounded, Config), Config)

\* Two decimals of the same numeric value: the same nonzero digits at the
\* same magnitude.
SameValue(d, e) == d.digits = e.digits /\ d.magnitude = e.magnitude

\* Every digit d shows is shown by e too.
KeepsEveryDigit(d, e) ==
    /\ e.upper_magnitude >= d.upper_magnitude
    /\ e.lower_magnitude <= d.lower_magnitude

\* Every nonzero digit of d is shown by e.
KeepsNonzeroDigits(d, e) ==
    is_zero(d) \/ (/\ e.upper_magnitude >= d.magnitude
                   /\ e.lower_magnitude <= nonzero_magnitude_end(d))

ShowsSign(d) == d.sign # "None"

\* C18: after apply_config, the value 0 shows no sign under Auto, ExceptZero
\* and Negative and shows a sign under Always; the value -5 shows a sign
\* under every mode except Never, and none under Never.
C18_SignMatrix ==
    NumberFormatted =>
        /\ number = <<from_i64(0)>> =>
              /\ Config.sign_display \in {"Auto", "ExceptZero", "Negative"}
                    => ~ShowsSign(decimal[1])
              /\ Config.sign_display = "Always" => ShowsSign(decimal[1])
        /\ number = <<from_i64(-5)>> =>
              (ShowsSign(decimal[1]) <=> Config.sign_display # "Never")

\* -5 under ExceptZero keeps its minus sign.
C18_Witness ==
    /\ NumberFormatted
    /\ number = <<from_i64(-5)>>
    /\ Config.sign_display = "ExceptZero"
    /\ decimal[1].sign = "Negative"

\* C19: under sign display Auto a minus sign is shown only if the value is
\* negative and nonzero: a decimal that is zero after the rounding step is
\* rendered without a sign.
C19_AutoHidesSignOfZero ==
    (NumberFormatted /\ Config.sign_display = "Auto") =>
        (ShowsSign(decimal[1]) =>
            decimal[1].sign = "Negative" /\ ~is_zero(Rounded))

\* Every step of apply_config the configuration asks for, with no test of the
\* digit position.
EveryStep(d, config) ==
    LET rounded == IF config.maximum_fraction_digits # <<>>
                   THEN round(d, -config.maximum_fraction_digits[1]) ELSE d
        started == IF config.minimum_integer_digits > 0
                   THEN pad_start(rounded, config.minimum_integer_digits) ELSE rounded
        ended == IF config.minimum_fraction_digits > 0
                 THEN pad_end(started, -config.minimum_fraction_digits) ELSE started
    IN apply_sign_display(ended, config.sign_display)

\* A digit position of the configuration fails the 16-bit conversion.
SkipsAStep(config) ==
    \/ config.maximum_fraction_digits # <<>>
          /\ i16_try_from(config.maximum_fraction_digits[1]) = <<>>
    \/ i16_try_from(config.minimum_integer_digits) = <<>>
    \/ i16_try_from(config.minimum_fraction_digits) = <<>>

\* C20: the configuration is never partially applied: for every accepted
\* configuration and every number, number_format and number_format_to_parts
\* either return invalid_number or run every applicable step of apply_config;
\* no step is skipped for a digit position that fails the 16-bit conversion.
C20_NeverPartiallyApplied ==
    (NumberFormatterOk /\ op \in {"number_format", "number_format_to_parts"}) =>
        \/ result = ErrorResult("invalid_number") /\ decimal = <<>>
        \/ /\ result.tag # "error"
           /\ ~SkipsAStep(Config)
           /\ decimal = <<EveryStep(number[1], Config)>>

\* The largest digit positions a configuration can hold are applied in full.
C20_Witness ==
    /\ NumberFormatted
    /\ op = "number_format_to_parts"
    /\ Config.minimum_integer_digits = 32767
    /\ Config.maximum_fraction_digits = <<32767>>
    /\ IntegerDigits(decimal[1]) = 32767
    /\ FractionDigits(decimal[1]) = 32767

----------------------------------------------------------------------------
\* Properties of term_to_decimal (SpecDecimal).

\* term_to_decimal was called with a map that holds sign, coef and exp, all
\* integers.
TripleDecoded ==
    /\ op # "none"
    /\ number_term.t = "map"
    /\ number_term.sign # <<>> /\ number_term.coef # <<>> /\ number_term.exp # <<>>
    /\ number_term.sign[1].t = "int"
    /\ number_term.coef[1].t = "int"
    /\ number_term.exp[1].t = "int"

TripleSign == number_term.sign[1].i
TripleCoef == number_term.coef[1].i
TripleExp == number_term.exp[1].i

Abs(v) == IF v < 0 THEN -v ELSE v

\* The decimal d is exactly sign * coef * 10^exp: the digits of coef without
\* its trailing zeros, the last of them at the magnitude exp plus the number
\* of those zeros, and a minus sign if and only if sign * coef < 0.
IsExactly(d, sign, coef, exp) ==
    IF coef = 0 THEN is_zero(d)
    ELSE LET all == NatToDigits(Abs(coef))
             kept == StripTrailingZeros(all)
         IN /\ d.digits = kept
            /\ nonzero_magnitude_end(d) = exp + (Len(all) - Len(kept))
            /\ (d.sign = "Negative") <=> (sign * coef < 0)

\* C21: for every triple with sign +1 or -1, an integer coefficient and an
\* exponent in the 16-bit signed range, try_decode_decimal_struct builds the
\* decimal that is exactly sign * coef * 10^exp, never another value such as
\* zero.
C21_ScalingExact ==
    (/\ TripleDecoded
     /\ TripleSign \in {1, -1}
     /\ TripleExp >= -32768 /\ TripleExp <= 32767)
        => /\ number # <<>>
           /\ IsExactly(number[1], TripleSign, TripleCoef, TripleExp)

\* C22: the construction from a map fails with invalid_number when the
\* exponent lies outside the 16-bit signed range, when the coefficient is no
\* integer, or when any of sign, coef and exp is missing from the map.
C22_TripleFailures ==
    (/\ op # "none"
     /\ number_term.t = "map"
     /\ \/ number_term.sign = <<>> \/ number_term.coef = <<>> \/ number_term.exp = <<>>
        \/ number_term.coef[1].t # "int"
        \/ number_term.exp[1].t = "int"
              /\ (number_term.exp[1].i < -32768 \/ number_term.exp[1].i > 32767))
        => number = <<>> /\ result = ErrorResult("invalid_number")

\* A full triple whose exponent is one above the range.
C22_Witness ==
    /\ number_term = DecimalStruct(1, 5, 32768)
    /\ op = "number_format"
    /\ result = ErrorResult("invalid_number")

\* C26: the triple constructor accepts only the sign values +1 and -1: a map
\* whose sign is another integer is rejected with invalid_number.
C26_OnlyUnitSigns ==
    (TripleDecoded /\ TripleSign \notin {1, -1})
        => number = <<>> /\ result = ErrorResult("invalid_number")

----------------------------------------------------------------------------
\* Properties of the number pipeline, continued (SpecFormatter).

\* C23: the triple {sign: -1, coef: 500, exp: -2}, formatted with the default
\* configuration, has the digit layout -5.00 before locale rendering: one
\* integer digit, two fraction digits and a minus sign.
C23_TripleLayout ==
    (/\ NumberFormatted
     /\ number_term = DecimalStruct(-1, 500, -2)
     /\ Config = DefaultFormatterConfig)
        => /\ decimal[1].digits = <<5>>
           /\ decimal[1].magnitude = 0
           /\ decimal[1].sign = "Negative"
           /\ IntegerDigits(decimal[1]) = 1
           /\ FractionDigits(decimal[1]) = 2

\* The number constructor decoded its locale and was given this map.
NumberOptionsAre(entries) ==
    /\ fkind = "number"
    /\ locale_term = "resource"
    /\ options_term = MapOptions(entries)

InvalidOptions == formatter = ErrorFormatter("invalid_options")

\* C30: an options map that sets only minimum_fraction_digits = n is accepted
\* if and only if 0 <= n <= 3, the default maximum; with
\* maximum_fraction_digits explicitly nil as well, it is accepted for every
\* 0 <= n <= 32767 and the number is not rounded.
C30_DefaultMaximumIsValidated ==
    \A n \in {v.i : v \in NumberOptionValues.minimum_fraction_digits} :
        LET min_key == Entry("minimum_fraction_digits", IntTerm(n))
            max_nil == Entry("maximum_fraction_digits", NilTerm)
        IN /\ NumberOptionsAre(<<min_key>>) => (~InvalidOptions <=> (0 <= n /\ n <= 3))
           /\ (/\ NumberOptionsAre(<<min_key, max_nil>>) \/ NumberOptionsAre(<<max_nil, min_key>>)
               /\ 0 <= n /\ n <= 32767)
                 => /\ ~InvalidOptions
                    /\ NumberFormatterOk => Config.maximum_fraction_digits = <<>>
                    /\ NumberFormatted => Rounded = number[1]

\* 0.9995 with 32767 fraction digits asked for and no maximum: no digit is
\* rounded away.
C30_Witness ==
    /\ NumberOptionsAre(<<Entry("maximum_fraction_digits", NilTerm),
                          Entry("minimum_fraction_digits", IntTerm(32767))>>)
    /\ NumberFormatted
    /\ number_term = DecimalStruct(1, 9995, -4)
    /\ decimal[1].digits = <<9, 9, 9, 5>>
    /\ FractionDigits(decimal[1]) = 32767

----------------------------------------------------------------------------
\* Properties of the collector and of the part extraction, continued (Spec).

\* Span a contains span b; it is another span than b.
Contains(a, b) == a.start <= b.start /\ b.end <= a.end
ProperlyContains(a, b) == Contains(a, b) /\ (a.start # b.start \/ a.end # b.end)

\* C27: the recorded spans are a laminar family in closing order: any two of
\* them are disjoint or one contains the other, the list is ordered by
\* non-decreasing end offset, and a span that contains another comes after
\* it in the list.
C27_LaminarSpans ==
    /\ \A i, j \in DOMAIN parts :
          i # j => \/ ~Overlap(parts[i], parts[j])
                   \/ Contains(parts[i], parts[j])
                   \/ Contains(parts[j], parts[i])
    /\ \A i \in DOMAIN parts : i > 1 => parts[i - 1].end <= parts[i].end
    /\ \A i, j \in DOMAIN parts : ProperlyContains(parts[i], parts[j]) => i > j

\* Two disjoint spans and, after them, the span of the scope around both.
C27_Witness ==
    /\ Len(parts) = 3
    /\ ~Overlap(parts[1], parts[2])
    /\ ProperlyContains(parts[3], parts[1])
    /\ ProperlyContains(parts[3], parts[2])

\* The engine's scopes left no span inside another, and every span carries a
\* tag part_atom maps.
FlatAndMapped ==
    /\ \A i, j \in DOMAIN parts : i # j => ~Overlap(parts[i], parts[j])
    /\ \A i \in DOMAIN parts : part_atom_datetime(parts[i].part) # <<>>

\* A literal part fills a whole gap: it starts at the start of the output or
\* at the end of a span, and ends at the end of the output or at the start
\* of a span.
FillsGap(p) ==
    /\ p.start = 0 \/ \E i \in DOMAIN parts : parts[i].end = p.start
    /\ p.end = Len(output) \/ \E i \in DOMAIN parts : parts[i].start = p.end
    /\ \A i \in DOMAIN parts : ~Overlap(parts[i], p)

\* C28: when the scoped writes are not nested and every span's tag maps to a
\* category, the parts temporal_format_to_parts returns do not overlap, are
\* in increasing offset order, concatenate to the output, and hold each gap
\* (leading, between spans, trailing) as one literal part.
C28_FlatGapComplete ==
    (ReturnedOk("temporal_format_to_parts") /\ FlatAndMapped) =>
        /\ \A i, j \in DOMAIN result.parts :
              i # j => ~Overlap(result.parts[i], result.parts[j])
        /\ \A i \in DOMAIN result.parts :
              i > 1 => result.parts[i].start >= result.parts[i - 1].end
        /\ ConcatValues(result.parts) = output
        /\ \A i \in DOMAIN result.parts :
              result.parts[i].part_type = "literal" =>
                  /\ result.parts[i].value # <<>>
                  /\ FillsGap(result.parts[i])
        /\ \A b \in 1..Len(output) :
              (\A i \in DOMAIN parts : ~Covers(parts[i], b)) =>
                  \E i \in DOMAIN result.parts :
                      /\ result.parts[i].part_type = "literal"
                      /\ Covers(result.parts[i], b)

\* A leading gap, a span and a trailing gap: three parts, two of them
\* literal.
C28_Witness ==
    /\ ReturnedOk("temporal_format_to_parts")
    /\ FlatAndMapped
    /\ Len(parts) = 1
    /\ Len(result.parts) = 3
    /\ result.parts[1].part_type = "literal"
    /\ result.parts[2].part_type = "second"
    /\ result.parts[3].part_type = "literal"
    /\ ConcatValues(result.parts) = output

----------------------------------------------------------------------------
\* Properties of decode_temporal (SpecTemporal).

\* decode_temporal was called with a map.
TemporalMapDecoded ==
    op # "none" /\ datetime_term # <<>> /\ datetime_term[1].t = "map"
Datetime == datetime_term[1]
InvalidDatetime == temporal_input = <<>> /\ result = ErrorResult("invalid_datetime")

\* The map holds the key with a value outside lo..hi.
Outside(key, lo, hi) ==
    Datetime[key] # <<>> /\ (Datetime[key][1] < lo \/ Datetime[key][1] > hi)

\* C25: decode_temporal rejects a map with month outside 1..12, day outside
\* 1..31, hour outside 0..23, minute or second outside 0..59, a sub-second
\* value outside 0..999999 or a digit count outside 0..6; and for every
\* accepted sub-second value v the nanoseconds given to the time constructor
\* are v * 1000, below 10^9 and so within 32 bits.
C25_TemporalRanges ==
    TemporalMapDecoded =>
        /\ (\/ Outside("month", 1, 12) \/ Outside("day", 1, 31)
            \/ Outside("hour", 0, 23) \/ Outside("minute", 0, 59)
            \/ Outside("second", 0, 59)
            \/ Datetime.microsecond # <<>>
                  /\ (\/ Datetime.microsecond[1].value < 0
                      \/ Datetime.microsecond[1].value > 999999
                      \/ Datetime.microsecond[1].digits < 0
                      \/ Datetime.microsecond[1].digits > 6))
              => InvalidDatetime
        /\ (temporal_input # <<>> /\ Datetime.microsecond # <<>>) =>
              /\ temporal_input[1].time # <<>>
              /\ temporal_input[1].time[1].nanosecond =
                    Datetime.microsecond[1].value * 1000
              /\ temporal_input[1].time[1].nanosecond < 1000000000

\* The largest sub-second value is accepted and becomes 999,999,000 ns.
C25_Witness ==
    /\ TemporalMapDecoded
    /\ Datetime.microsecond = <<MicrosecondTerm(999999, 6)>>
    /\ temporal_input # <<>>
    /\ temporal_input[1].time[1].nanosecond = 999999000

\* Some key of the group is in the map, and some key of it is not.
Partial(keys) ==
    (\E k \in keys : Datetime[k] # <<>>) /\ (\E k \in keys : Datetime[k] = <<>>)

DateKeys == {"year", "month", "day"}
TimeKeys == {"hour", "minute", "second", "microsecond"}

----------------------------------------------------------------------------
\* Properties of term_to_decimal on floats (SpecDecimal).

\* The float nearest to the decimal d, ties going to the even significand:
\* its significand and exponent.
NearestFloat(d) ==
    LET x == IF is_zero(d) THEN 0
             ELSE DigitsToNat(d.digits) * DecimalUnit(nonzero_magnitude_end(d))
        below == SetMax({v \in ScaledFloats : v <= x})
        above == IF \E v \in ScaledFloats : v >= x
                 THEN SetMin({v \in ScaledFloats : v >= x}) ELSE below
        nearest == IF x - below < above - x THEN below
                   ELSE IF x - below > above - x THEN above
                   ELSE IF MagnitudeOf(below)[1] % 2 = 0 THEN below ELSE above
    IN MagnitudeOf(nearest)

\* The decimal d, read as a float.
AsFloat(d) ==
    Float("finite", d.sign = "Negative", NearestFloat(d)[1], NearestFloat(d)[2])

FloatDecoded == op # "none" /\ number_term.t = "float"

====
